---- MODULE Spec2Model ----
(***************************************************************************)
(* SkyCast AI: the weather normalisation tables (weatherService), the AI   *)
(* calls (geminiService) and the App component's orchestration of search,  *)
(* weather fetch, insight stream, scene generation and quota retry.        *)
(*                                                                         *)
(* Text is modelled by TLA+ strings (concatenation is \o); a search query  *)
(* is a sequence of one-character strings so that trim(), split(' ') and   *)
(* length can be computed as the code computes them.                       *)
(***************************************************************************)
EXTENDS Integers, Sequences, FiniteSets, TLC

VARIABLES
    \* ---- React state of App (useState, App.tsx lines 31-48)
    city, currentWeather, forecast, unit, loading, error, searchQuery,
    insight, loadingInsight, bgImage, loadingBg, bgQuotaError, retryCountdown,
    userIntent, isListening,
    \* ---- the pending one-second timer of the countdown effect, and the
    \* ---- retryCountdown its last run saw (its dependency)
    timer,
    \* ---- environment
    apiKey,        \* TRUE iff process.env.API_KEY is set (fixed for a session)
    mounted,       \* the mount effect (fetchData('New Delhi')) has run
    \* ---- asynchronous work in flight
    runs,          \* handleSearch / fetchData invocations
    streams,       \* streamWeatherInsight calls, one per fetchData run
    scenes,        \* generateWeatherScene calls issued by fetchData, one per run
    retries,       \* generateWeatherScene calls issued by retryBackgroundGeneration
    quotaPending,  \* history: a quota result was applied and its countdown
                   \* has not yet been counted down to zero by the timer
    watch,         \* the run whose insight stream is recorded in trace (0: none)
    trace,         \* history of the watched streamWeatherInsight call
    \* ---- a single evaluation of the normalisation tables
    probe

appVars == <<city, currentWeather, forecast, unit, loading, error, searchQuery,
             insight, loadingInsight, bgImage, loadingBg, bgQuotaError,
             retryCountdown, userIntent>>
taskVars == <<apiKey, mounted, runs, streams, scenes, retries, quotaPending>>
obsVars == <<watch, trace>>
vars == <<appVars, taskVars, obsVars, probe, timer, isListening>>

----------------------------------------------------------------------------
(* Bounds of the model *)

MaxCode == 101        \* condition codes probed: -NegCodes .. MaxCode
NegCodes == 2
MaxIsDay == 2         \* is_day values probed: 0 .. MaxIsDay

CodeRange == (0 - NegCodes)..MaxCode
IsDayRange == 0..MaxIsDay

----------------------------------------------------------------------------
(* weatherService: WMO code -> icon code, WMO code -> description *)

(* The icon id the table gives a code, or "" when no branch matches. *)
IconId(wmoCode) ==
    IF wmoCode = 0 THEN "01"
    ELSE IF wmoCode = 1 THEN "02"
    ELSE IF wmoCode = 2 THEN "03"
    ELSE IF wmoCode = 3 THEN "04"
    ELSE IF wmoCode = 45 \/ wmoCode = 48 THEN "50"
    ELSE IF wmoCode >= 51 /\ wmoCode <= 57 THEN "09"
    ELSE IF wmoCode >= 61 /\ wmoCode <= 67 THEN "10"
    ELSE IF wmoCode >= 80 /\ wmoCode <= 82 THEN "09"
    ELSE IF (wmoCode >= 71 /\ wmoCode <= 77) \/ (wmoCode >= 85 /\ wmoCode <= 86)
         THEN "13"
    ELSE IF wmoCode >= 95 /\ wmoCode <= 99 THEN "11"
    ELSE ""

(* Mutation: the rain bucket 61..67 is given the unknown id "12". *)
getIconCode_badBucket(wmoCode, isDay) ==
    LET suffix == IF isDay # 0 THEN "d" ELSE "n"
    IN  IF wmoCode >= 61 /\ wmoCode <= 67 THEN "12" \o suffix
        ELSE IF IconId(wmoCode) # "" THEN IconId(wmoCode) \o suffix
        ELSE "01" \o suffix

(* Mutation: the final fallback ignores the day/night suffix. *)
getIconCode_dayFallback(wmoCode, isDay) ==
    LET suffix == IF isDay # 0 THEN "d" ELSE "n"
    IN  IF IconId(wmoCode) # "" THEN IconId(wmoCode) \o suffix
        ELSE "01d"

(* getIconCode: `isDay ? 'd' : 'n'` is the truthiness of a number. *)
getIconCode(wmoCode, isDay) ==
    LET suffix == IF isDay # 0 THEN "d" ELSE "n"
    IN  IF IconId(wmoCode) # "" THEN IconId(wmoCode) \o suffix
        ELSE "01" \o suffix

(* The codes record of getDescription. *)
codes ==
    (0 :> "Clear sky") @@
    (1 :> "Mainly clear") @@ (2 :> "Partly cloudy") @@ (3 :> "Overcast") @@
    (45 :> "Fog") @@ (48 :> "Depositing rime fog") @@
    (51 :> "Light drizzle") @@ (53 :> "Moderate drizzle") @@ (55 :> "Dense drizzle") @@
    (56 :> "Light freezing drizzle") @@ (57 :> "Dense freezing drizzle") @@
    (61 :> "Slight rain") @@ (63 :> "Moderate rain") @@ (65 :> "Heavy rain") @@
    (66 :> "Light freezing rain") @@ (67 :> "Heavy freezing rain") @@
    (71 :> "Slight snow") @@ (73 :> "Moderate snow") @@ (75 :> "Heavy snow") @@
    (77 :> "Snow grains") @@
    (80 :> "Slight rain showers") @@ (81 :> "Moderate rain showers") @@
    (82 :> "Violent rain showers") @@
    (85 :> "Slight snow showers") @@ (86 :> "Heavy snow showers") @@
    (95 :> "Thunderstorm") @@ (96 :> "Thunderstorm with slight hail") @@
    (99 :> "Thunderstorm with heavy hail")

(* Mutation: a missing entry yields the empty text. *)
getDescription_noFallback(wmoCode) ==
    IF wmoCode \in DOMAIN codes THEN codes[wmoCode] ELSE ""

(* getDescription: codes[wmoCode] || 'Unknown'. *)
getDescription(wmoCode) ==
    IF wmoCode \in DOMAIN codes /\ codes[wmoCode] # "" THEN codes[wmoCode]
    ELSE "Unknown"

(* The weather[0] entry of a snapshot (getCurrentWeather). *)
WeatherEntry(wmoCode, isDay) ==
    [id |-> wmoCode,
     main |-> getDescription(wmoCode),
     description |-> getDescription(wmoCode),
     icon |-> getIconCode(wmoCode, isDay)]

(* WeatherIcon: the glyph the UI draws for an icon code. *)
WeatherIcon(code) ==
    CASE code = "01d" -> "Sun"
      [] code = "01n" -> "Moon"
      [] code \in {"02d", "02n", "03d", "03n", "04d", "04n"} -> "Cloud"
      [] code \in {"09d", "09n"} -> "CloudDrizzle"
      [] code \in {"10d", "10n"} -> "CloudRain"
      [] code \in {"11d", "11n"} -> "CloudLightning"
      [] code \in {"13d", "13n"} -> "CloudSnow"
      [] code \in {"50d", "50n"} -> "CloudFog"
      [] OTHER -> "Sun"

----------------------------------------------------------------------------
(* Values *)

Null == [null |-> TRUE]          \* null of currentWeather / forecast
NullStr == "<null>"              \* null of error / bgImage (string | null)
Undefined == <<"undefined">>     \* a city argument that is undefined
CELSIUS == "CELSIUS"
FAHRENHEIT == "FAHRENHEIT"
Units == {CELSIUS, FAHRENHEIT}

NewDelhi == <<"N", "e", "w", " ", "D", "e", "l", "h", "i">>
Paris == <<"P", "a", "r", "i", "s">>
(* setSearchQuery('Listening...') *)
Listening == <<"L", "i", "s", "t", "e", "n", "i", "n", "g", ".", ".", ".">>

(* Template-literal coercion of a character sequence to text. *)
RECURSIVE Str(_)
Str(q) == IF q = <<>> THEN "" ELSE Head(q) \o Str(Tail(q))

----------------------------------------------------------------------------
(* Bounds of the App model *)

MaxRuns == 2          \* handleSearch / fetchData invocations, the mount fetch included
MaxRetries == 1       \* retryBackgroundGeneration invocations
MaxChunks == 2        \* stream events delivered to one streamWeatherInsight call
MaxParts == 2         \* parts in one image-generation response
MaxTicks == 1         \* timer ticks modelled below the top of the countdown
EdgeTicks == 1        \* seconds from either end of a countdown in which events are followed
MaxQueryLen == 4      \* characters of a short query
PadLen == 18          \* characters put in front of a short query to make a long one

MaxHours == 30        \* entries of an upstream hourly list
MaxOffset == 2        \* UTC offsets of a location, in hours: -MaxOffset .. MaxOffset

RunIds == 1..MaxRuns
RetryIds == 1..MaxRetries

(* setRetryCountdown(86400): the 24 h countdown. *)
QUOTA_RETRY_SECONDS == 86400
(* query.length > 20 and split(' ').length > 2 in handleSearch. *)
MAX_PLAIN_LENGTH == 20
MAX_PLAIN_TOKENS == 2
(* i < startIndex + 24 in getForecast. *)
HOURLY_WINDOW == 24

----------------------------------------------------------------------------
(* Search queries: trim(), split(' '), length *)

Alphabet == {"a", " ", "\t"}
IsWhitespace(ch) == ch \in {" ", "\t"}

RECURSIVE SeqsUpTo(_, _)
SeqsUpTo(S, n) ==
    IF n = 0 THEN {<<>>}
    ELSE LET shorter == SeqsUpTo(S, n - 1)
         IN  shorter \cup {Append(q, ch) : q \in {x \in shorter : Len(x) = n - 1}, ch \in S}

RECURSIVE Repeat(_, _)
Repeat(ch, n) == IF n = 0 THEN <<>> ELSE <<ch>> \o Repeat(ch, n - 1)

ShortQueries == SeqsUpTo(Alphabet, MaxQueryLen)
LongQueries == {Repeat("a", PadLen) \o q : q \in ShortQueries}
AllQueries == ShortQueries \cup LongQueries

(* String.prototype.trim *)
RECURSIVE TrimStart(_)
TrimStart(q) ==
    IF q # <<>> /\ IsWhitespace(Head(q)) THEN TrimStart(Tail(q)) ELSE q
RECURSIVE TrimEnd(_)
TrimEnd(q) ==
    IF q # <<>> /\ IsWhitespace(q[Len(q)]) THEN TrimEnd(SubSeq(q, 1, Len(q) - 1)) ELSE q
Trim(q) == TrimEnd(TrimStart(q))

(* String.prototype.split(' '): the pieces between single spaces, empty    *)
(* pieces included; the empty string splits into one empty piece.          *)
RECURSIVE SplitFrom(_, _)
SplitFrom(q, piece) ==
    IF q = <<>> THEN <<piece>>
    ELSE IF Head(q) = " " THEN <<piece>> \o SplitFrom(Tail(q), <<>>)
    ELSE SplitFrom(Tail(q), Append(piece, Head(q)))
Split(q) == SplitFrom(q, <<>>)

(* Mutation: the thresholds are inclusive. *)
NeedsParse_inclusive(query) ==
    Len(Split(Trim(query))) >= MAX_PLAIN_TOKENS \/ Len(query) >= MAX_PLAIN_LENGTH

(* handleSearch: query.trim().split(' ').length > 2 || query.length > 20 *)
NeedsParse(query) ==
    Len(Split(Trim(query))) > MAX_PLAIN_TOKENS \/ Len(query) > MAX_PLAIN_LENGTH

----------------------------------------------------------------------------
(* geminiService: the outcomes of an AI call and what each function makes  *)
(* of them                                                                 *)

(* An error thrown by the AI client: its status and code fields, and       *)
(* whether its message contains "429".                                     *)
AiErrors ==
    { [status |-> "RESOURCE_EXHAUSTED", code |-> 429, msg429 |-> TRUE],
      [status |-> "",                   code |-> 429, msg429 |-> FALSE],
      [status |-> "",                   code |-> 0,   msg429 |-> TRUE],
      [status |-> "",                   code |-> 0,   msg429 |-> FALSE] }

(* Any of the three ways the provider signals quota exhaustion. *)
QuotaSignal(err) ==
    err.status = "RESOURCE_EXHAUSTED" \/ err.code = 429 \/ err.msg429

(* ---- parseSearchQuery ---- *)

ResponseTexts ==
    { "", "not json", "null", "{}",
      "{\"city\":\"Paris\"}",
      "{\"city\":\"Paris\",\"intent\":\"rain\"}" }

ParseOutcomes ==
    {[kind |-> "error", text |-> ""]}
    \cup {[kind |-> "text", text |-> t] : t \in ResponseTexts}

(* JSON.parse on the response texts above: ok = FALSE is a SyntaxError;    *)
(* a value is null or an object, of which the fields read by handleSearch  *)
(* are kept (an absent field reads as undefined).                          *)
JSONParse(text) ==
    CASE text = "null" ->
            [ok |-> TRUE, isNull |-> TRUE, city |-> Undefined, intent |-> ""]
      [] text = "{}" ->
            [ok |-> TRUE, isNull |-> FALSE, city |-> Undefined, intent |-> ""]
      [] text = "{\"city\":\"Paris\"}" ->
            [ok |-> TRUE, isNull |-> FALSE, city |-> Paris, intent |-> ""]
      [] text = "{\"city\":\"Paris\",\"intent\":\"rain\"}" ->
            [ok |-> TRUE, isNull |-> FALSE, city |-> Paris, intent |-> "rain"]
      [] OTHER ->
            [ok |-> FALSE, isNull |-> FALSE, city |-> Undefined, intent |-> ""]

(* { city: query } *)
QueryAsCity(query) == [isNull |-> FALSE, city |-> query, intent |-> ""]

(* parseSearchQuery: the value the promise resolves to (it never rejects). *)
parseSearchQuery(hasKey, query, outcome) ==
    IF ~hasKey THEN QueryAsCity(query)
    ELSE IF outcome.kind = "error" THEN QueryAsCity(query)
    ELSE IF outcome.text = "" THEN QueryAsCity(query)
    ELSE IF ~JSONParse(outcome.text).ok THEN QueryAsCity(query)
    ELSE [isNull |-> JSONParse(outcome.text).isNull,
          city |-> JSONParse(outcome.text).city,
          intent |-> JSONParse(outcome.text).intent]

(* ---- generateWeatherScene ---- *)

(* The image payloads call c may be sent. *)
ImageData(c) == {"A" \o c, "B" \o c}

(* A response part: inline data, or text. *)
PartsOf(c) ==
    {[inline |-> FALSE, data |-> ""]}
    \cup {[inline |-> TRUE, data |-> d] : d \in ImageData(c)}

SceneOutcomes(c) ==
    {[kind |-> "error", err |-> e, parts |-> <<>>] : e \in AiErrors}
    \cup {[kind |-> "response", err |-> CHOOSE e \in AiErrors : ~QuotaSignal(e),
           parts |-> ps] : ps \in SeqsUpTo(PartsOf(c), MaxParts)}

DataUri(data) == "data:image/png;base64," \o data

RECURSIVE FirstInline(_)
FirstInline(parts) ==
    IF parts = <<>> THEN NullStr
    ELSE IF Head(parts).inline THEN DataUri(Head(parts).data)
    ELSE FirstInline(Tail(parts))

(* Mutation: the quota test misses the message form of the signal. *)
generateWeatherScene_noMessageTest(hasKey, outcome) ==
    IF ~hasKey THEN [imageData |-> NullStr, isQuotaError |-> FALSE]
    ELSE IF outcome.kind = "response"
         THEN [imageData |-> FirstInline(outcome.parts), isQuotaError |-> FALSE]
    ELSE IF outcome.err.status = "RESOURCE_EXHAUSTED" \/ outcome.err.code = 429
         THEN [imageData |-> NullStr, isQuotaError |-> TRUE]
    ELSE [imageData |-> NullStr, isQuotaError |-> FALSE]

(* generateWeatherScene: the value the promise resolves to. *)
generateWeatherScene(hasKey, outcome) ==
    IF ~hasKey THEN [imageData |-> NullStr, isQuotaError |-> FALSE]
    ELSE IF outcome.kind = "response"
         THEN [imageData |-> FirstInline(outcome.parts), isQuotaError |-> FALSE]
    ELSE IF outcome.err.status = "RESOURCE_EXHAUSTED" \/ outcome.err.code = 429
            \/ outcome.err.msg429
         THEN [imageData |-> NullStr, isQuotaError |-> TRUE]
    ELSE [imageData |-> NullStr, isQuotaError |-> FALSE]

(* ---- streamWeatherInsight ---- *)

KEY_MISSING == "Gemini API Key is missing. Please add it to your environment variables."
APOLOGY == "I'm currently receiving too many requests. Please check back in a moment for your smart insights!"
OFFLINE == "Gemini is currently offline due to atmospheric interference (API Error)."

(* The text fragments the stream of run r may deliver ("" is a chunk       *)
(* without text).                                                          *)
Fragments(r) == {"", "a" \o r, "b" \o r}

(* The chunk emitted by the catch block of streamWeatherInsight. *)
StreamCatchChunk(err) ==
    IF err.status = "RESOURCE_EXHAUSTED" \/ err.code = 429 THEN APOLOGY ELSE OFFLINE

----------------------------------------------------------------------------
(* weatherService: the upstream requests of one fetchData run *)

Tokyo == <<"T", "o", "k", "y", "o">>
RainingInParis ==
    <<"I", "s", " ", "i", "t", " ", "r", "a", "i", "n", "i", "n", "g", " ",
      "i", "n", " ", "P", "a", "r", "i", "s">>
TypedQueries == {RainingInParis}
Transcripts == {Tokyo}
AppParseOutcomes ==
    { [kind |-> "error", text |-> ""],
      [kind |-> "text", text |-> "{}"],
      [kind |-> "text", text |-> "{\"city\":\"Paris\",\"intent\":\"rain\"}"] }

AppFragments(r) == {"s" \o r}
AppAiErrors ==
    { [status |-> "", code |-> 429, msg429 |-> FALSE],
      [status |-> "", code |-> 0,   msg429 |-> FALSE] }
AppSceneOutcomes(c) ==
    {o \in SceneOutcomes(c) :
        \/ o.kind = "error" /\ o.err \in AppAiErrors
        \/ o.kind = "response" /\ Len(o.parts) = 1 /\ o.parts[1].data # "B" \o c}

UpstreamMessages == {"Network Error", ""}
UpstreamCodes == {61}
(* The names the geocoder answers with (results[0].name). *)
GeoNames == {"New Delhi", "Tokyo"}

(* What the providers answer to the requests of one run: the two geocoder  *)
(* lookups and the name of the place they find (geoName, which need not be *)
(* the text asked for), the weather, air-quality and forecast requests,    *)
(* the message of                                                          *)
(* a failing request, which of getCurrentWeather / getForecast settles     *)
(* first, the current condition, wind speed and US AQI of the payloads,    *)
(* the hourly timestamps of the forecast payload, and the client clock     *)
(* (now) when getForecast reads it.                                        *)
(* A wall-clock hour as the text of a timestamp cut to the hour            *)
(* ("YYYY-MM-DDTHH"): the day and the hour of the day. Instants are        *)
(* counted in hours.                                                       *)
WallClock(h) == [day |-> h \div 24, hour |-> h % 24]

(* hourly.time of the weather provider asked with timezone 'auto' for a    *)
(* location offset hours ahead of UTC, at the instant now: n wall-clock    *)
(* hours of the location, from the midnight that began its current day.    *)
UpstreamHourlyTimes(now, offset, n) ==
    LET midnight == 24 * ((now + offset) \div 24)
    IN  [i \in 1..n |-> WallClock(midnight + i - 1)]

AllFine ==
    [geoCW |-> "ok", wx |-> "ok", aqi |-> "ok", geoF |-> "ok", fc |-> "ok",
     msg |-> "Network Error", cwFirst |-> TRUE, code |-> 61, isDay |-> 1,
     wind |-> 7, usAqi |-> 42, now |-> 24, geoName |-> "New Delhi",
     hourlyTimes |-> UpstreamHourlyTimes(24, 0, 2)]

Upstreams ==
    {[AllFine EXCEPT !.code = c] : c \in UpstreamCodes}
    \cup {[AllFine EXCEPT !.geoCW = g, !.geoF = g, !.msg = m] :
             g \in {"zero", "fail"}, m \in UpstreamMessages}
    \cup {[AllFine EXCEPT !.geoCW = "zero"], [AllFine EXCEPT !.geoF = "zero"]}
    \cup {[AllFine EXCEPT !.wx = "fail", !.msg = m] : m \in UpstreamMessages}
    \cup {[AllFine EXCEPT !.aqi = a] : a \in {"omitted", "fail"}}
    \cup {[AllFine EXCEPT !.fc = "fail", !.msg = m] : m \in UpstreamMessages}
    \cup {[AllFine EXCEPT !.geoCW = "zero", !.fc = "fail", !.cwFirst = b] : b \in BOOLEAN}

(* The geocoder followed by the App specifications: the place it finds    *)
(* for a query (the capital's common name for 'New Delhi', the city of a   *)
(* question about Paris, else a place named as asked), and the answers of  *)
(* the providers to a run that looks up city c.                            *)
Geocoded(c) ==
    IF c = NewDelhi THEN "Delhi"
    ELSE IF c = RainingInParis THEN "Paris"
    ELSE Str(c)
UpstreamsFor(c, ups) == {[up EXCEPT !.geoName = Geocoded(c)] : up \in ups}

(* getCoordinates: throw new Error(`City '${city}' not found.`) *)
NotFoundMessage(c) == "City '" \o Str(c) \o "' not found."
AQI_TYPE_ERROR == "Cannot read properties of undefined (reading 'us_aqi')"

TemperatureUnitParam(u) == IF u = FAHRENHEIT THEN "fahrenheit" ELSE "celsius"

Rejected(m) == [ok |-> FALSE, message |-> m, value |-> Null]
Resolved(v) == [ok |-> TRUE, message |-> "", value |-> v]

(* Mutation: an imperial search asks for the wind in miles per hour. *)
WeatherParams_imperialWind(u) ==
    [temperature_unit |-> TemperatureUnitParam(u),
     wind_speed_unit |-> IF u = FAHRENHEIT THEN "mph" ELSE "ms",
     timezone |-> "auto"]

(* The unit and timezone parameters of the weather request of              *)
(* getCurrentWeather.                                                      *)
WeatherParams(u) ==
    [temperature_unit |-> TemperatureUnitParam(u),
     wind_speed_unit |-> "ms",
     timezone |-> "auto"]

(* The unit and timezone parameters of the request of getForecast. *)
ForecastParams(u) ==
    [temperature_unit |-> TemperatureUnitParam(u),
     wind_speed_unit |-> "ms",
     timezone |-> "auto"]

(* The weather requests getCurrentWeather / getForecast issue: none when   *)
(* the geocoding before them fails.                                        *)
WeatherRequests(u, up) == IF up.geoCW = "ok" THEN <<WeatherParams(u)>> ELSE <<>>
ForecastRequests(u, up) == IF up.geoF = "ok" THEN <<ForecastParams(u)>> ELSE <<>>

(* getCurrentWeather(city, '', unit) against the answers up. The snapshot  *)
(* is in the units its request asked for.                                  *)
getCurrentWeather(c, u, up) ==
    LET rethrow(m) == Rejected(IF m # "" THEN m ELSE "Failed to fetch weather data")
    IN  IF up.geoCW = "fail" THEN rethrow(up.msg)
        ELSE IF up.geoCW = "zero" THEN rethrow(NotFoundMessage(c))
        ELSE IF up.wx = "fail" \/ up.aqi = "fail" THEN rethrow(up.msg)
        ELSE IF up.aqi = "omitted" THEN rethrow(AQI_TYPE_ERROR)
        ELSE Resolved([name |-> up.geoName,
                       weather |-> WeatherEntry(up.code, up.isDay),
                       temperature_unit |-> WeatherParams(u).temperature_unit,
                       wind_speed_unit |-> WeatherParams(u).wind_speed_unit,
                       wind |-> [speed |-> up.wind],
                       aqi |-> [us_aqi |-> up.usAqi],
                       visibility |-> 10000])

(* now.toISOString().slice(0, 13): the wall-clock hour of the client clock *)
(* in UTC.                                                                 *)
CurrentHourStr(now) == WallClock(now)

(* hourly.time.findIndex(t => t.startsWith(currentHourStr)): the 0-based   *)
(* index of the first match, or -1.                                        *)
FindIndex(times, hourStr) ==
    IF \E i \in 1..Len(times) : times[i] = hourStr
    THEN (CHOOSE i \in 1..Len(times) :
              times[i] = hourStr /\ \A j \in 1..(i - 1) : times[j] # hourStr) - 1
    ELSE -1

(* let startIndex = foundIndex !== -1 ? foundIndex : 0 *)
StartIndex(times, now) ==
    LET foundIndex == FindIndex(times, CurrentHourStr(now))
    IN  IF foundIndex # -1 THEN foundIndex ELSE 0

(* Mutation: the loop runs to startIndex + 24 inclusive. *)
HourlyList_inclusive(times, startIndex) ==
    LET last == IF startIndex + HOURLY_WINDOW < Len(times) - 1
                THEN startIndex + HOURLY_WINDOW ELSE Len(times) - 1
    IN  [k \in 1..(last - startIndex + 1) |-> [dt |-> times[startIndex + k]]]

(* for (i = startIndex; i < startIndex + 24 && i < hourly.time.length;     *)
(* i++) hourlyList.push({ dt: hourly.time[i], ... }), with 0-based i.      *)
HourlyList(times, startIndex) ==
    LET end == IF startIndex + HOURLY_WINDOW < Len(times)
               THEN startIndex + HOURLY_WINDOW ELSE Len(times)
    IN  [k \in 1..(end - startIndex) |-> [dt |-> times[startIndex + k]]]

(* getForecast(city, '', unit) against the answers up. *)
getForecast(c, u, up) ==
    LET rethrow(m) == Rejected(IF m # "" THEN m ELSE "Failed to fetch forecast data")
    IN  IF up.geoF = "fail" THEN rethrow(up.msg)
        ELSE IF up.geoF = "zero" THEN rethrow(NotFoundMessage(c))
        ELSE IF up.fc = "fail" THEN rethrow(up.msg)
        ELSE Resolved([name |-> up.geoName,
                       temperature_unit |-> ForecastParams(u).temperature_unit,
                       wind_speed_unit |-> ForecastParams(u).wind_speed_unit,
                       hourly |-> HourlyList(up.hourlyTimes,
                                             StartIndex(up.hourlyTimes, up.now))])

(* Promise.all([getCurrentWeather, getForecast]): both values, or the      *)
(* rejection that comes first.                                             *)
FetchBoth(c, u, up) ==
    LET cw == getCurrentWeather(c, u, up)
        fc == getForecast(c, u, up)
    IN  IF cw.ok /\ fc.ok THEN [ok |-> TRUE, message |-> "", weather |-> cw.value,
                                forecast |-> fc.value]
        ELSE IF ~cw.ok /\ (fc.ok \/ up.cwFirst)
             THEN [ok |-> FALSE, message |-> cw.message, weather |-> Null, forecast |-> Null]
        ELSE [ok |-> FALSE, message |-> fc.message, weather |-> Null, forecast |-> Null]

(* fetchData's catch: err.message || "Could not find weather data. ..." *)
CatchMessage(m) ==
    IF m # "" THEN m ELSE "Could not find weather data. Please try another city."

----------------------------------------------------------------------------
(* Task records *)

NoErr == [status |-> "", code |-> -1, msg429 |-> FALSE]
NoOutcome == [kind |-> "none", text |-> ""]
NoResult == [imageData |-> NullStr, isQuotaError |-> FALSE]

(* A handleSearch / fetchData invocation: where it stands (free, parse,    *)
(* fetch, done, failed) and its locals.                                    *)
FreeRun ==
    [pc |-> "free", origin |-> "", query |-> <<>>, parsed |-> FALSE,
     ai |-> NoOutcome, result |-> QueryAsCity(<<>>), threw |-> FALSE,
     city |-> <<>>, intent |-> "", unit |-> CELSIUS]
(* A streamWeatherInsight call (none, open, done), the accumulatedText of  *)
(* the onChunk closure it was given, and the number n of chunks its stream *)
(* has delivered (at most MaxChunks).                                      *)
NoStream == [pc |-> "none", acc |-> "", n |-> 0]
(* The watched call: the chunks the stream delivered (got), the arguments  *)
(* of its onChunk calls (chunks), the error it failed with, and its final  *)
(* accumulatedText.                                                        *)
NoTrace == [state |-> "idle", got |-> <<>>, chunks |-> <<>>, err |-> NoErr, acc |-> ""]
NoProbe == [kind |-> "none", wmoCode |-> 0, isDay |-> 0, hasKey |-> FALSE,
            outcome |-> [kind |-> "response", err |-> NoErr, parts |-> <<>>],
            done |-> FALSE, entry |-> WeatherEntry(0, 0), scene |-> NoResult]

(* Mutation: the credential tests are dropped. *)
Configured_unchecked == TRUE

(* !process.env.API_KEY, the first test of parseSearchQuery,               *)
(* generateWeatherScene and streamWeatherInsight: with no credential the   *)
(* function returns before it issues its request.                          *)
Configured == apiKey

HasFreeRun == \E r \in RunIds : runs[r].pc = "free"
FreshRun == CHOOSE r \in RunIds : runs[r].pc = "free" /\ \A q \in RunIds : runs[q].pc = "free" => r <= q
HasFreeRetry == \E k \in RetryIds : retries[k] = "free"
FreshRetry == CHOOSE k \in RetryIds : retries[k] = "free" /\ \A q \in RetryIds : retries[q] = "free" => k <= q

----------------------------------------------------------------------------
(* Initial state: the useState initialisers of App *)

AppInit ==
    /\ city = NewDelhi
    /\ currentWeather = Null
    /\ forecast = Null
    /\ unit = CELSIUS
    /\ loading = FALSE
    /\ error = NullStr
    /\ searchQuery = <<>>
    /\ insight = ""
    /\ loadingInsight = FALSE
    /\ bgImage = NullStr
    /\ loadingBg = FALSE
    /\ bgQuotaError = FALSE
    /\ retryCountdown = 0
    /\ userIntent = ""
    /\ isListening = FALSE
    /\ timer = [armed |-> FALSE, deps |-> 0]
    /\ apiKey \in BOOLEAN
    /\ mounted = FALSE
    /\ runs = [r \in RunIds |-> FreeRun]
    /\ streams = [r \in RunIds |-> NoStream]
    /\ scenes = [r \in RunIds |-> "none"]
    /\ retries = [k \in RetryIds |-> "free"]
    /\ quotaPending = FALSE
    /\ trace = NoTrace

Init == AppInit /\ watch = 0 /\ probe = NoProbe

----------------------------------------------------------------------------
(* App: fetchData *)

(* The synchronous head of fetchData, up to its await. *)
FetchDataBegin ==
    /\ loading' = TRUE
    /\ error' = NullStr
    /\ insight' = ""
    /\ bgImage' = NullStr
    /\ bgQuotaError' = FALSE
    /\ retryCountdown' = 0

(* The mount effect: fetchData('New Delhi'). *)
Mount ==
    /\ ~mounted
    /\ mounted' = TRUE
    /\ FetchDataBegin
    /\ runs' = [runs EXCEPT ![FreshRun] =
                   [FreeRun EXCEPT !.pc = "fetch", !.origin = "mount",
                                   !.city = NewDelhi, !.unit = unit]]
    /\ UNCHANGED <<city, currentWeather, forecast, unit, searchQuery,
                   loadingInsight, loadingBg, userIntent>>
    /\ UNCHANGED <<apiKey, streams, scenes, retries, quotaPending, obsVars, probe, timer, isListening>>

(* The rest of handleSearch once the parsed value p is known (p is the     *)
(* query itself when no parse was made), then the head of fetchData.       *)
(* Reading parsed.city of null throws; the catch keeps the raw query.      *)
SearchContinue(r, rec, p, viaParse) ==
    LET threw == viaParse /\ p.isNull
        targetCity == IF threw THEN rec.query ELSE p.city
        intent == IF threw THEN "" ELSE p.intent
    IN  /\ userIntent' = IF threw THEN userIntent ELSE intent
        /\ FetchDataBegin
        /\ runs' = [runs EXCEPT ![r] =
                       [rec EXCEPT !.pc = "fetch", !.result = p, !.threw = threw,
                                   !.city = targetCity, !.intent = intent]]

(* handleSearch(e, manualQuery) called from a render whose fetchData       *)
(* closes over capturedUnit; typed is the value of the search box.         *)
handleSearch(origin, query, capturedUnit, typed) ==
    /\ mounted
    /\ searchQuery' = typed
    /\ IF Trim(query) = <<>>
       THEN UNCHANGED <<loading, error, insight, bgImage, bgQuotaError,
                        retryCountdown, userIntent, runs>>
       ELSE /\ HasFreeRun
            /\ LET r == FreshRun
                   rec == [FreeRun EXCEPT !.origin = origin, !.query = query,
                                          !.unit = capturedUnit]
               IN  IF NeedsParse(query)
                   THEN IF Configured
                        THEN /\ loading' = TRUE
                             /\ runs' = [runs EXCEPT ![r] =
                                            [rec EXCEPT !.pc = "parse", !.parsed = TRUE]]
                             /\ UNCHANGED <<error, insight, bgImage, bgQuotaError,
                                            retryCountdown, userIntent>>
                        ELSE SearchContinue(r, [rec EXCEPT !.parsed = TRUE],
                                            parseSearchQuery(FALSE, query, NoOutcome), TRUE)
                   ELSE SearchContinue(r, rec, QueryAsCity(query), FALSE)
    /\ UNCHANGED <<city, currentWeather, forecast, unit, loadingInsight, loadingBg>>
    /\ UNCHANGED <<apiKey, mounted, streams, scenes, retries, quotaPending, obsVars, probe,
                   timer>>

(* onChange of the search box. *)
TypeQuery(q) ==
    /\ mounted
    /\ q # searchQuery
    /\ searchQuery' = q
    /\ UNCHANGED <<city, currentWeather, forecast, unit, loading, error, insight,
                   loadingInsight, bgImage, loadingBg, bgQuotaError, retryCountdown,
                   userIntent>>
    /\ UNCHANGED <<taskVars, obsVars, probe, timer, isListening>>

(* onSubmit of the search form. *)
Submit ==
    /\ handleSearch("submit", searchQuery, unit, searchQuery)
    /\ UNCHANGED isListening

(* recognition.onresult: the handler of the first render, whose            *)
(* searchQuery is '' and whose fetchData closes over Unit.CELSIUS.         *)
VoiceResult(transcript) ==
    /\ handleSearch("voice", IF transcript # <<>> THEN transcript ELSE <<>>,
                    CELSIUS, transcript)
    /\ isListening' = FALSE

(* toggleVoiceSearch, the handler of the microphone button: it stops a     *)
(* recognition that is listening, or starts one and writes 'Listening...'  *)
(* into the search box.                                                    *)
toggleVoiceSearch ==
    /\ mounted
    /\ IF isListening
       THEN /\ isListening' = FALSE
            /\ UNCHANGED searchQuery
       ELSE /\ isListening' = TRUE
            /\ searchQuery' = Listening
    /\ UNCHANGED <<city, currentWeather, forecast, unit, loading, error, insight,
                   loadingInsight, bgImage, loadingBg, bgQuotaError, retryCountdown,
                   userIntent>>
    /\ UNCHANGED <<taskVars, obsVars, probe, timer>>

(* recognition.onerror / onend: setIsListening(false). *)
RecognitionEnd ==
    /\ mounted
    /\ isListening
    /\ isListening' = FALSE
    /\ UNCHANGED <<appVars, taskVars, obsVars, probe, timer>>

(* The AI call of parseSearchQuery settles. *)
ParseReturn(r, outcome) ==
    /\ runs[r].pc = "parse"
    /\ SearchContinue(r, [runs[r] EXCEPT !.ai = outcome],
                      parseSearchQuery(apiKey, runs[r].query, outcome), TRUE)
    /\ UNCHANGED <<city, currentWeather, forecast, unit, searchQuery,
                   loadingInsight, loadingBg>>
    /\ UNCHANGED <<apiKey, mounted, streams, scenes, retries, quotaPending, obsVars, probe, timer, isListening>>

(* The unit button, and the [unit] effect that follows the re-render.      *)
ToggleUnit ==
    /\ mounted
    /\ unit' = IF unit = CELSIUS THEN FAHRENHEIT ELSE CELSIUS
    /\ IF currentWeather # Null
       THEN /\ HasFreeRun
            /\ FetchDataBegin
            /\ runs' = [runs EXCEPT ![FreshRun] =
                           [FreeRun EXCEPT !.pc = "fetch", !.origin = "unit",
                                           !.city = city, !.unit = unit']]
       ELSE UNCHANGED <<loading, error, insight, bgImage, bgQuotaError,
                        retryCountdown, runs>>
    /\ UNCHANGED <<city, currentWeather, forecast, searchQuery, loadingInsight,
                   loadingBg, userIntent>>
    /\ UNCHANGED <<apiKey, mounted, streams, scenes, retries, quotaPending, obsVars, probe, timer, isListening>>

(* Mutation: the callback keeps only the latest chunk. *)
onChunk_overwrite(accumulatedText, chunk) == chunk

(* The onChunk closure of fetchData: accumulatedText += chunk (the new     *)
(* value is then passed to setInsight).                                    *)
onChunk(accumulatedText, chunk) == accumulatedText \o chunk

(* Mutation: the catch block reports the error and keeps the snapshot. *)
FetchDataCatch_stale(message) ==
    /\ error' = CatchMessage(message)
    /\ UNCHANGED <<currentWeather, forecast>>

(* Mutation: the catch block clears the snapshot and keeps the forecast. *)
FetchDataCatch_keepForecast(message) ==
    /\ error' = CatchMessage(message)
    /\ currentWeather' = Null
    /\ UNCHANGED forecast

(* The catch block of fetchData. *)
FetchDataCatch(message) ==
    /\ error' = CatchMessage(message)
    /\ currentWeather' = Null
    /\ forecast' = Null

(* Mutation: setLoading(false) is the last statement of the try block. *)
FetchDataFinally_tryOnly(ok) ==
    IF ok THEN loading' = FALSE ELSE UNCHANGED loading

(* The finally block of fetchData, after the try (ok) or the catch. *)
FetchDataFinally(ok) == loading' = FALSE

(* Promise.all settles and fetchData runs to its end; the locals of the    *)
(* finished handleSearch / fetchData are dropped from runs. With a         *)
(* credential the stream and the scene call are left in flight; without    *)
(* one both return at once: the stream emits its fixed chunk inside this   *)
(* step and generateWeatherScene resolves to (null, false).                *)
FetchResolve(r, up) ==
    /\ runs[r].pc = "fetch"
    /\ LET res == FetchBoth(runs[r].city, runs[r].unit, up)
       IN  IF res.ok
           THEN /\ currentWeather' = res.weather
                /\ forecast' = res.forecast
                /\ city' = runs[r].city
                /\ runs' = [runs EXCEPT ![r] = [FreeRun EXCEPT !.pc = "done"]]
                /\ IF Configured
                   THEN /\ loadingInsight' = TRUE
                        /\ streams' = [streams EXCEPT ![r] = [pc |-> "open", acc |-> "", n |-> 0]]
                        /\ loadingBg' = TRUE
                        /\ scenes' = [scenes EXCEPT ![r] = "call"]
                        /\ trace' = IF r = watch
                                    THEN [NoTrace EXCEPT !.state = "open"] ELSE trace
                        /\ UNCHANGED insight
                   ELSE /\ loadingInsight' = FALSE
                        /\ streams' = [streams EXCEPT ![r] = [pc |-> "done", acc |-> "", n |-> 0]]
                        /\ insight' = onChunk("", KEY_MISSING)
                        /\ loadingBg' = FALSE
                        /\ scenes' = [scenes EXCEPT ![r] = "done"]
                        /\ trace' = IF r = watch
                                    THEN [NoTrace EXCEPT !.state = "nokey",
                                                         !.chunks = <<KEY_MISSING>>,
                                                         !.acc = onChunk("", KEY_MISSING)]
                                    ELSE trace
                /\ UNCHANGED error
           ELSE /\ FetchDataCatch(res.message)
                /\ runs' = [runs EXCEPT ![r] = [FreeRun EXCEPT !.pc = "failed"]]
                /\ UNCHANGED <<city, insight, loadingInsight, loadingBg, streams,
                               scenes, trace>>
    /\ FetchDataFinally(FetchBoth(runs[r].city, runs[r].unit, up).ok)
    /\ UNCHANGED <<unit, searchQuery, bgImage, bgQuotaError, retryCountdown, userIntent>>
    /\ UNCHANGED <<apiKey, mounted, retries, quotaPending, watch, probe, timer, isListening>>

----------------------------------------------------------------------------
(* App: the insight stream of run r (streamWeatherInsight and the onChunk  *)
(* closure of fetchData, whose accumulatedText is streams[r].acc)          *)

(* The for-await loop receives one chunk, whose text may be empty:         *)
(* if (text) onChunk(text).                                                *)
StreamChunk(r, text) ==
    /\ streams[r].pc = "open"
    /\ streams[r].n < MaxChunks
    /\ IF text # ""
       THEN /\ insight' = onChunk(streams[r].acc, text)
            /\ streams' = [streams EXCEPT ![r].acc = onChunk(@, text), ![r].n = @ + 1]
       ELSE /\ streams' = [streams EXCEPT ![r].n = @ + 1]
            /\ UNCHANGED insight
    /\ trace' = IF r = watch
                THEN [trace EXCEPT !.got = Append(@, text),
                                   !.chunks = IF text # "" THEN Append(@, text) ELSE @]
                ELSE trace
    /\ UNCHANGED <<city, currentWeather, forecast, unit, loading, error, searchQuery,
                   loadingInsight, bgImage, loadingBg, bgQuotaError, retryCountdown,
                   userIntent>>
    /\ UNCHANGED <<apiKey, mounted, runs, scenes, retries, quotaPending, watch, probe, timer, isListening>>

(* The stream ends; the promise resolves and finally clears the flag. *)
StreamEnd(r) ==
    /\ streams[r].pc = "open"
    /\ streams' = [streams EXCEPT ![r] = [pc |-> "done", acc |-> "", n |-> 0]]
    /\ loadingInsight' = FALSE
    /\ trace' = IF r = watch
                THEN [trace EXCEPT !.state = "ended", !.acc = streams[r].acc]
                ELSE trace
    /\ UNCHANGED <<city, currentWeather, forecast, unit, loading, error, searchQuery,
                   insight, bgImage, loadingBg, bgQuotaError, retryCountdown,
                   userIntent>>
    /\ UNCHANGED <<apiKey, mounted, runs, scenes, retries, quotaPending, watch, probe, timer, isListening>>

(* generateContentStream or the iteration throws err: the catch block      *)
(* emits its chunk through onChunk, then finally clears the flag.          *)
StreamFail(r, err) ==
    /\ streams[r].pc = "open"
    /\ insight' = onChunk(streams[r].acc, StreamCatchChunk(err))
    /\ streams' = [streams EXCEPT ![r] = [pc |-> "done", acc |-> "", n |-> 0]]
    /\ loadingInsight' = FALSE
    /\ trace' = IF r = watch
                THEN [trace EXCEPT !.state = "failed", !.err = err,
                                   !.chunks = Append(@, StreamCatchChunk(err)),
                                   !.acc = onChunk(streams[r].acc, StreamCatchChunk(err))]
                ELSE trace
    /\ UNCHANGED <<city, currentWeather, forecast, unit, loading, error, searchQuery,
                   bgImage, loadingBg, bgQuotaError, retryCountdown, userIntent>>
    /\ UNCHANGED <<apiKey, mounted, runs, scenes, retries, quotaPending, watch, probe, timer, isListening>>

----------------------------------------------------------------------------
(* App: scene generation, retry and the countdown timer *)

(* Mutation: a scene failure is surfaced as the error of the page. *)
SceneThen_surfaced(result) ==
    /\ IF result.imageData # NullStr
       THEN /\ bgImage' = result.imageData
            /\ bgQuotaError' = FALSE
            /\ UNCHANGED <<retryCountdown, quotaPending, error>>
       ELSE IF result.isQuotaError
       THEN /\ bgQuotaError' = TRUE
            /\ retryCountdown' = QUOTA_RETRY_SECONDS
            /\ quotaPending' = TRUE
            /\ error' = "Image generation failed"
            /\ UNCHANGED bgImage
       ELSE UNCHANGED <<bgImage, bgQuotaError, retryCountdown, quotaPending, error>>
    /\ UNCHANGED <<currentWeather, forecast>>

(* The .then callback of fetchData's generateWeatherScene call: the state  *)
(* it sets, and the error and snapshot it leaves alone.                    *)
SceneThen(result) ==
    /\ IF result.imageData # NullStr
       THEN /\ bgImage' = result.imageData
            /\ bgQuotaError' = FALSE
            /\ UNCHANGED <<retryCountdown, quotaPending>>
       ELSE IF result.isQuotaError
       THEN /\ bgQuotaError' = TRUE
            /\ retryCountdown' = QUOTA_RETRY_SECONDS
            /\ quotaPending' = TRUE
            /\ UNCHANGED bgImage
       ELSE UNCHANGED <<bgImage, bgQuotaError, retryCountdown, quotaPending>>
    /\ UNCHANGED <<error, currentWeather, forecast>>

(* The .then / .finally of fetchData's generateWeatherScene call. *)
SceneReturn(r, outcome) ==
    /\ scenes[r] = "call"
    /\ scenes' = [scenes EXCEPT ![r] = "done"]
    /\ SceneThen(generateWeatherScene(apiKey, outcome))
    /\ loadingBg' = FALSE
    /\ UNCHANGED <<city, unit, loading, searchQuery, insight, loadingInsight,
                   userIntent>>
    /\ UNCHANGED <<apiKey, mounted, runs, streams, retries, obsVars, probe, timer, isListening>>

(* The guard of retryBackgroundGeneration:                                 *)
(* if (!currentWeather || retryCountdown > 0) return;                      *)
RetryAllowed == currentWeather # Null /\ ~(retryCountdown > 0)

(* The countdown effect has run for the retryCountdown of the state: the   *)
(* page on display was rendered with it.                                   *)
Committed == retryCountdown = timer.deps

(* Mutation: the retry button is shown without the quota flag. *)
RetryButton_noQuotaFlag ==
    /\ ~loading
    /\ currentWeather # Null
    /\ ~(retryCountdown > 0)
    /\ ~loadingBg

(* The 'Check Quota / Retry' button is on the page and enabled: the page   *)
(* is not loading and shows a snapshot, the quota flag is set, the         *)
(* countdown is not above zero, and no scene call has loadingBg set.       *)
RetryButton ==
    /\ ~loading
    /\ currentWeather # Null
    /\ bgQuotaError
    /\ ~(retryCountdown > 0)
    /\ ~loadingBg

(* A click on the retry button, the only caller of                         *)
(* retryBackgroundGeneration. An invocation its guard refuses returns at   *)
(* once and changes nothing. Without a credential the call resolves at     *)
(* once to (null, false).                                                  *)
retryBackgroundGeneration ==
    /\ mounted
    /\ Committed
    /\ RetryButton
    /\ IF ~RetryAllowed
       THEN UNCHANGED <<retries, loadingBg>>
       ELSE /\ HasFreeRetry
            /\ IF Configured
               THEN /\ retries' = [retries EXCEPT ![FreshRetry] = "call"]
                    /\ loadingBg' = TRUE
               ELSE /\ retries' = [retries EXCEPT ![FreshRetry] = "done"]
                    /\ loadingBg' = FALSE
    /\ UNCHANGED <<city, currentWeather, forecast, unit, loading, error, searchQuery,
                   insight, loadingInsight, bgImage, bgQuotaError, retryCountdown,
                   userIntent>>
    /\ UNCHANGED <<apiKey, mounted, runs, streams, scenes, quotaPending, obsVars, probe, timer, isListening>>

(* The awaited generateWeatherScene call of a retry settles. *)
RetryReturn(k, outcome) ==
    /\ retries[k] = "call"
    /\ retries' = [retries EXCEPT ![k] = "done"]
    /\ LET result == generateWeatherScene(apiKey, outcome)
       IN  IF result.imageData # NullStr
           THEN /\ bgImage' = result.imageData
                /\ bgQuotaError' = FALSE
                /\ retryCountdown' = 0
                /\ UNCHANGED quotaPending
           ELSE IF result.isQuotaError
           THEN /\ bgQuotaError' = TRUE
                /\ retryCountdown' = QUOTA_RETRY_SECONDS
                /\ quotaPending' = TRUE
                /\ UNCHANGED bgImage
           ELSE UNCHANGED <<bgImage, bgQuotaError, retryCountdown, quotaPending>>
    /\ loadingBg' = FALSE
    /\ UNCHANGED <<city, currentWeather, forecast, unit, loading, error, searchQuery,
                   insight, loadingInsight, userIntent>>
    /\ UNCHANGED <<apiKey, mounted, runs, streams, scenes, obsVars, probe, timer, isListening>>

(* The commit of a render whose retryCountdown differs from the one the    *)
(* countdown effect last ran with: the cleanup of that run clears its      *)
(* timer, and the effect arms a new one-second timer if retryCountdown > 0.*)
(* A render follows the state updates that caused it after a return to the *)
(* event loop, so a timer that is due can fire in between.                 *)
TimerEffect ==
    /\ retryCountdown # timer.deps
    /\ timer' = [armed |-> retryCountdown > 0, deps |-> retryCountdown]
    /\ UNCHANGED <<appVars, taskVars, obsVars, probe, isListening>>

(* A timer set by the countdown effect is pending. *)
TimerArmed == timer.armed

(* The timer of the countdown effect fires:                                *)
(* setRetryCountdown(prev => prev - 1), whatever prev has become.          *)
CountdownTick ==
    /\ TimerArmed
    /\ timer' = [timer EXCEPT !.armed = FALSE]
    /\ retryCountdown' = retryCountdown - 1
    /\ quotaPending' = IF retryCountdown' = 0 THEN FALSE ELSE quotaPending
    /\ UNCHANGED <<city, currentWeather, forecast, unit, loading, error, searchQuery,
                   insight, loadingInsight, bgImage, loadingBg, bgQuotaError,
                   userIntent>>
    /\ UNCHANGED <<apiKey, mounted, runs, streams, scenes, retries, obsVars, probe,
                   isListening>>

(* The timer as the App specification follows it: for MaxTicks ticks below *)
(* the starting value of the countdown, and from a countdown already set   *)
(* back to zero.                                                           *)
Tick ==
    /\ retryCountdown > QUOTA_RETRY_SECONDS - MaxTicks \/ retryCountdown <= 0
    /\ CountdownTick

----------------------------------------------------------------------------
(* The App specification *)

(* The render that follows a change of retryCountdown is committed before  *)
(* the page handles a further event (a user action or the return of a      *)
(* call), except that a timer already due may fire first. The timer is     *)
(* followed for its first MaxTicks ticks; the retry button, which the page *)
(* shows once the countdown has run down, is followed in SpecCountdown.    *)
Next ==
    \/ Committed /\ Mount
    \/ \E q \in TypedQueries : Committed /\ TypeQuery(q)
    \/ Committed /\ Submit
    \/ \E t \in Transcripts : Committed /\ VoiceResult(t)
    \/ \E r \in RunIds, o \in AppParseOutcomes : Committed /\ ParseReturn(r, o)
    \/ Committed /\ ToggleUnit
    \/ \E r \in RunIds : \E up \in UpstreamsFor(runs[r].city, Upstreams) :
          Committed /\ FetchResolve(r, up)
    \/ \E r \in RunIds : \E t \in AppFragments(ToString(r)) :
          Committed /\ StreamChunk(r, t)
    \/ \E r \in RunIds : Committed /\ StreamEnd(r)
    \/ \E r \in RunIds, e \in AppAiErrors : Committed /\ StreamFail(r, e)
    \/ \E r \in RunIds : \E o \in AppSceneOutcomes(ToString(r)) :
          Committed /\ SceneReturn(r, o)
    \/ Committed /\ toggleVoiceSearch
    \/ Committed /\ RecognitionEnd
    \/ TimerEffect
    \/ Tick

Spec == Init /\ [][Next]_vars

----------------------------------------------------------------------------
(* Single evaluations of the normalisation tables and of                   *)
(* generateWeatherScene, over all inputs within the bounds                 *)

IconProbes ==
    {[NoProbe EXCEPT !.kind = "icon", !.wmoCode = c, !.isDay = d] :
        c \in CodeRange, d \in IsDayRange}
SceneProbes ==
    {[NoProbe EXCEPT !.kind = "scene", !.hasKey = k, !.outcome = o] :
        k \in BOOLEAN, o \in SceneOutcomes("x")}

InitPure ==
    /\ AppInit
    /\ watch = 0
    /\ probe \in IconProbes \cup SceneProbes

(* weather: [{ id, main, description, icon }] of getCurrentWeather. *)
BuildWeatherEntry ==
    /\ probe.kind = "icon"
    /\ ~probe.done
    /\ probe' = [probe EXCEPT !.done = TRUE,
                              !.entry = WeatherEntry(probe.wmoCode, probe.isDay)]
    /\ UNCHANGED <<appVars, taskVars, obsVars, timer, isListening>>

(* One generateWeatherScene call, from its invocation to its result. *)
CallGenerateWeatherScene ==
    /\ probe.kind = "scene"
    /\ ~probe.done
    /\ probe' = [probe EXCEPT !.done = TRUE,
                              !.scene = generateWeatherScene(probe.hasKey, probe.outcome)]
    /\ UNCHANGED <<appVars, taskVars, obsVars, timer, isListening>>

NextPure == BuildWeatherEntry \/ CallGenerateWeatherScene

SpecPure == InitPure /\ [][NextPure]_vars

----------------------------------------------------------------------------
(* handleSearch and parseSearchQuery over all queries and all AI answers   *)
(* within the bounds; the search box is typed into before the first search *)

NoSearchYet == \A r \in RunIds : runs[r].origin \notin {"submit", "voice"}

NextSearch ==
    \/ Mount
    \/ \E q \in AllQueries : NoSearchYet /\ TypeQuery(q)
    \/ Submit
    \/ \E t \in Transcripts : VoiceResult(t)
    \/ toggleVoiceSearch
    \/ RecognitionEnd
    \/ \E r \in RunIds, o \in ParseOutcomes : ParseReturn(r, o)

SpecSearch == Init /\ [][NextSearch]_vars

----------------------------------------------------------------------------
(* The insight stream of the mount fetch, watched, over all fragments and  *)
(* errors within the bounds                                                *)

InitStream == AppInit /\ watch = 1 /\ probe = NoProbe

NextStream ==
    \/ Mount
    \/ \E up \in Upstreams : FetchResolve(1, up)
    \/ \E t \in Fragments(ToString(1)) : StreamChunk(1, t)
    \/ StreamEnd(1)
    \/ \E e \in AiErrors : StreamFail(1, e)
    \/ \E o \in AppSceneOutcomes(ToString(1)) : SceneReturn(1, o)

SpecStream == InitStream /\ [][NextStream]_vars

----------------------------------------------------------------------------
(* Properties of the normalisation tables (SpecPure) *)

IconIds == {"01", "02", "03", "04", "09", "10", "11", "13", "50"}
IconCodes == {id \o sfx : id \in IconIds, sfx \in {"d", "n"}}
DayIconCodes == {id \o "d" : id \in IconIds}

(* The codes for which some branch of getIconCode other than the last      *)
(* return is taken.                                                        *)
RecognisedCodes ==
    {0, 1, 2, 3, 45, 48} \cup (51..57) \cup (61..67) \cup (71..77)
    \cup (80..82) \cup (85..86) \cup (95..99)

(* The codes inside a range of getIconCode that have no description. *)
UndescribedIconCodes == {52, 54, 62, 64, 72, 74, 76, 97, 98}

IconProbed == probe.kind = "icon" /\ probe.done

(* C1: for every condition code and is-day flag, the icon code of the      *)
(* entry built from them is one of the 18 codes {01,...,50} x {d,n}, its   *)
(* suffix is d exactly when the flag is non-zero, and the entry built from *)
(* code 61 with is-day 1 has icon "10d" (drawn as rain) and description    *)
(* "Slight rain". The icon code is a function of the two inputs alone.     *)
C1_IconCodeEnumerated ==
    IconProbed =>
        /\ probe.entry.icon \in IconCodes
        /\ (probe.entry.icon \in DayIconCodes) <=> (probe.isDay # 0)
        /\ probe.entry.icon = getIconCode(probe.wmoCode, probe.isDay)
        /\ (probe.wmoCode = 61 /\ probe.isDay = 1) =>
               /\ probe.entry.icon = "10d"
               /\ probe.entry.description = "Slight rain"
               /\ WeatherIcon(probe.entry.icon) = "CloudRain"

C1_Witness ==
    /\ IconProbed
    /\ probe.wmoCode = 61 /\ probe.isDay = 1
    /\ probe.entry.icon = "10d"
    /\ probe.entry.description = "Slight rain"

(* C2 as stated: every code the icon table does not recognise is mapped to *)
(* "01d", for either value of the is-day flag.                             *)
C2_FallbackIsClearDay ==
    (IconProbed /\ probe.wmoCode \notin RecognisedCodes) =>
        probe.entry.icon = "01d"

(* C2 as the code has it: a code the icon table does not recognise is      *)
(* mapped to "01d" when the is-day flag is non-zero and to "01n" when it   *)
(* is zero.                                                                *)
C2_FallbackIsClearSky ==
    (IconProbed /\ probe.wmoCode \notin RecognisedCodes) =>
        probe.entry.icon = IF probe.isDay # 0 THEN "01d" ELSE "01n"

C2_Witness ==
    /\ IconProbed
    /\ probe.wmoCode = 100 /\ probe.isDay = 0
    /\ probe.entry.icon = "01n"
    /\ WeatherIcon(probe.entry.icon) = "Moon"

(* C3 as stated: every code without an entry in the description table has  *)
(* the fallback icon (id 01) and the description "Unknown".                *)
C3_UndescribedIsFallback ==
    (IconProbed /\ probe.wmoCode \notin DOMAIN codes) =>
        /\ probe.entry.icon \in {"01d", "01n"}
        /\ probe.entry.description = "Unknown"

(* C3 as the code has it: a code without an entry in the description table *)
(* has the description "Unknown", and has the fallback icon (id 01) unless *)
(* it is one of 52, 54, 62, 64, 72, 74, 76, 97, 98, which lie inside a     *)
(* range of the icon table; every code with a description is recognised by *)
(* the icon table and is never described as "Unknown".                     *)
C3_UndescribedIsUnknown ==
    IconProbed =>
        /\ probe.wmoCode \notin DOMAIN codes =>
              /\ probe.entry.description = "Unknown"
              /\ probe.entry.main = "Unknown"
              /\ (probe.entry.icon \in {"01d", "01n"})
                    <=> (probe.wmoCode \notin UndescribedIconCodes)
        /\ probe.wmoCode \in DOMAIN codes =>
              /\ probe.wmoCode \in RecognisedCodes
              /\ probe.entry.description = codes[probe.wmoCode]
              /\ probe.entry.description # "Unknown"

C3_Witness ==
    /\ IconProbed
    /\ probe.wmoCode = 52 /\ probe.isDay = 1
    /\ probe.entry.icon = "09d"
    /\ probe.entry.description = "Unknown"

----------------------------------------------------------------------------
(* Properties of generateWeatherScene (SpecPure) *)

SceneProbed == probe.kind = "scene" /\ probe.done

HasInlinePart(parts) == \E i \in 1..Len(parts) : parts[i].inline
FirstInlineIndex(parts) ==
    CHOOSE i \in 1..Len(parts) :
        parts[i].inline /\ \A j \in 1..(i - 1) : ~parts[j].inline

(* C8: generateWeatherScene always resolves, to exactly one of: the first  *)
(* inline part of the response as a data URI with isQuotaError false; no   *)
(* image with isQuotaError true when the call fails with a quota signal;   *)
(* no image with isQuotaError false when the response has no inline part   *)
(* or the call fails otherwise (or no credential is set). It never gives   *)
(* an image together with isQuotaError true.                               *)
C8_SceneResultShape ==
    SceneProbed =>
        LET o == probe.outcome
            res == probe.scene
        IN  /\ res = IF probe.hasKey /\ o.kind = "response" /\ HasInlinePart(o.parts)
                     THEN [imageData |-> "data:image/png;base64,"
                                           \o o.parts[FirstInlineIndex(o.parts)].data,
                           isQuotaError |-> FALSE]
                     ELSE IF probe.hasKey /\ o.kind = "error" /\ QuotaSignal(o.err)
                     THEN [imageData |-> NullStr, isQuotaError |-> TRUE]
                     ELSE [imageData |-> NullStr, isQuotaError |-> FALSE]
            /\ ~(res.imageData # NullStr /\ res.isQuotaError)

C8_Witness ==
    /\ SceneProbed
    /\ probe.hasKey
    /\ probe.outcome.kind = "response"
    /\ probe.outcome.parts = <<[inline |-> FALSE, data |-> ""],
                               [inline |-> TRUE, data |-> "Bx"]>>
    /\ probe.scene = [imageData |-> "data:image/png;base64,Bx", isQuotaError |-> FALSE]

----------------------------------------------------------------------------
(* Properties of handleSearch and parseSearchQuery (SpecSearch) *)

(* The searches made by the user, from their first step on. *)
Searches == {r \in RunIds : runs[r].origin \in {"submit", "voice"}}

RECURSIVE CountOf(_, _)
CountOf(ch, q) ==
    IF q = <<>> THEN 0
    ELSE (IF Head(q) = ch THEN 1 ELSE 0) + CountOf(ch, Tail(q))

(* The words of a query: its maximal runs of characters other than the     *)
(* space.                                                                  *)
WordCount(q) ==
    Cardinality({i \in 1..Len(q) :
                    q[i] # " " /\ (i = 1 \/ q[i - 1] = " ")})

(* The pieces of the trimmed query between single spaces: one more than    *)
(* the number of spaces left after trimming.                               *)
PieceCount(q) == 1 + CountOf(" ", Trim(q))

TwentyLong == Repeat("a", PadLen) \o <<" ", "a">>

(* C4 as stated: parseSearchQuery is invoked if and only if the query has  *)
(* more than two space-separated tokens or is longer than 20 characters;   *)
(* otherwise the query itself goes to the geocoder, with no intent.        *)
C4_ParseIffManyTokensOrLong ==
    \A r \in Searches :
        /\ runs[r].parsed <=> (WordCount(runs[r].query) > 2 \/ Len(runs[r].query) > 20)
        /\ ~runs[r].parsed =>
               /\ runs[r].pc = "fetch"
               /\ runs[r].city = runs[r].query
               /\ runs[r].intent = ""

(* C4 as the code has it: parseSearchQuery is invoked if and only if the   *)
(* trimmed query, cut at every single space (an empty piece counted for    *)
(* each space that follows another), has more than two pieces, or the      *)
(* query as given is longer than 20 characters; otherwise no parse is made *)
(* and the query itself goes to the geocoder as the city, with no intent.  *)
C4_ParseIffManyPiecesOrLong ==
    \A r \in Searches :
        /\ runs[r].parsed <=> (PieceCount(runs[r].query) > 2 \/ Len(runs[r].query) > 20)
        /\ ~runs[r].parsed =>
               /\ runs[r].pc = "fetch"
               /\ runs[r].ai = NoOutcome
               /\ runs[r].city = runs[r].query
               /\ runs[r].intent = ""

C4_Witness ==
    \E r \in Searches :
        /\ runs[r].origin = "submit"
        /\ runs[r].query = TwentyLong
        /\ WordCount(runs[r].query) = 2 /\ Len(runs[r].query) = 20
        /\ ~runs[r].parsed
        /\ runs[r].pc = "fetch"
        /\ runs[r].city = TwentyLong

(* The AI call of a search failed: it threw, it answered with no text, its *)
(* text was not the JSON object asked for, or no credential is set.        *)
ParseFailed(r) ==
    \/ ~apiKey
    \/ runs[r].ai.kind = "error"
    \/ runs[r].ai.kind = "text" /\ runs[r].ai.text \in {"", "not json", "null", "{}"}

(* C5: whenever the AI call of parseSearchQuery fails in any of these      *)
(* ways, parseSearchQuery resolves to the original query as the city with  *)
(* no intent, and that query is what handleSearch passes on.               *)
C5_ParseFailureKeepsQuery ==
    \A r \in Searches :
        (runs[r].parsed /\ runs[r].pc = "fetch" /\ ParseFailed(r)) =>
            /\ runs[r].result = QueryAsCity(runs[r].query)
            /\ runs[r].city = runs[r].query
            /\ runs[r].intent = ""

----------------------------------------------------------------------------
(* Properties of streamWeatherInsight and its onChunk callback (SpecStream) *)

RECURSIVE NonEmpty(_)
NonEmpty(texts) ==
    IF texts = <<>> THEN <<>>
    ELSE IF Head(texts) # "" THEN <<Head(texts)>> \o NonEmpty(Tail(texts))
    ELSE NonEmpty(Tail(texts))

RECURSIVE Concat(_)
Concat(texts) == IF texts = <<>> THEN "" ELSE Head(texts) \o Concat(Tail(texts))

StreamCompleted == trace.state \in {"ended", "failed", "nokey"}

(* C6: when a streamWeatherInsight call fails with a quota signal (status  *)
(* RESOURCE_EXHAUSTED, code 429, or a message naming 429), at whatever     *)
(* point, onChunk has received exactly one fragment in that call, the      *)
(* apology text.                                                           *)
C6_QuotaFailureGivesOnlyApology ==
    (trace.state = "failed" /\ QuotaSignal(trace.err)) =>
        trace.chunks = <<APOLOGY>>

(* C7 as stated: onChunk is invoked once for each non-empty fragment       *)
(* received, in arrival order, and when the call completes the buffer      *)
(* written by the callback is the concatenation of those fragments.        *)
C7_BufferIsReceivedFragments ==
    /\ trace.state # "idle" => trace.chunks = NonEmpty(trace.got)
    /\ StreamCompleted => trace.acc = Concat(NonEmpty(trace.got))

(* The fixed text a call emits through onChunk when it does not run to the *)
(* end of its stream.                                                      *)
FallbackChunks ==
    IF trace.state = "failed"
    THEN <<IF trace.err.status = "RESOURCE_EXHAUSTED" \/ trace.err.code = 429
           THEN APOLOGY ELSE OFFLINE>>
    ELSE IF trace.state = "nokey" THEN <<KEY_MISSING>>
    ELSE <<>>

(* C7 as the code has it: onChunk is invoked once for each non-empty       *)
(* fragment received, in arrival order, and then once more with a fixed    *)
(* text if the call fails or no credential is set; when the call completes *)
(* the buffer written by the callback is the concatenation, in order, of   *)
(* all the texts onChunk was given.                                        *)
C7_BufferIsChunksGiven ==
    /\ trace.state # "idle" => trace.chunks = NonEmpty(trace.got) \o FallbackChunks
    /\ StreamCompleted => trace.acc = Concat(trace.chunks)
    /\ StreamCompleted => insight = trace.acc

C7_Witness ==
    /\ trace.state = "ended"
    /\ trace.got = <<"a1", "b1">>
    /\ trace.chunks = <<"a1", "b1">>
    /\ trace.acc = "a1b1"
    /\ insight = "a1b1"

----------------------------------------------------------------------------
(* Properties of the App: quota countdown (SpecCountdown) and fetch        *)
(* failures (Spec)                                                         *)

(* A generateWeatherScene call is issued in this step, by fetchData or by  *)
(* retryBackgroundGeneration.                                              *)
SceneCallIssued ==
    \/ \E r \in RunIds : scenes[r] = "none" /\ scenes'[r] # "none"
    \/ \E k \in RetryIds : retries[k] = "free" /\ retries'[k] # "free"

(* C9 as stated: once a generateWeatherScene call has returned             *)
(* isQuotaError = true, no further generateWeatherScene call is issued     *)
(* until the timer has counted the 86400 s countdown down to zero,         *)
(* whatever the user does.                                                 *)
C9_NoSceneCallBeforeCountdownEnds ==
    [][quotaPending => ~SceneCallIssued]_vars

(* C9 as the code has it: a click on the retry button issues a            *)
(* generateWeatherScene call only when the quota flag is set, the          *)
(* countdown has reached zero, a snapshot is displayed and no scene call   *)
(* has loadingBg set; every fetchData (new search, unit toggle) sets       *)
(* retryCountdown back to zero and clears the quota flag when it starts,   *)
(* and issues its own generateWeatherScene call when its weather fetch     *)
(* succeeds, whatever the countdown then is.                               *)
C9_RetryWaitsFetchResets ==
    [][ /\ \A k \in RetryIds :
              (retries[k] = "free" /\ retries'[k] # "free") =>
                  /\ bgQuotaError /\ retryCountdown = 0
                  /\ currentWeather # Null /\ ~loadingBg
        /\ \A r \in RunIds :
              (runs[r].pc # "fetch" /\ runs'[r].pc = "fetch") =>
                  (retryCountdown' = 0 /\ ~bgQuotaError')
        /\ \A r \in RunIds :
              (runs[r].pc = "fetch" /\ runs'[r].pc = "done") =>
                  scenes'[r] = IF apiKey THEN "call" ELSE "done"
      ]_vars

C9_Witness ==
    /\ quotaPending
    /\ runs[2].pc = "done"
    /\ scenes[2] = "call"
    /\ retryCountdown = 0 /\ ~bgQuotaError

(* A lookup of the run's requests found no match, or one of its weather,   *)
(* air-quality and forecast requests failed.                               *)
Fails(up) ==
    \/ up.geoCW = "zero" \/ up.geoF = "zero"
    \/ up.geoCW = "fail" \/ up.geoF = "fail"
    \/ up.wx = "fail" \/ up.aqi = "fail" \/ up.fc = "fail"

(* The messages that failure can carry: the not-found text for the city    *)
(* looked up, the message of the failed request, or the service's default  *)
(* text when that message is empty.                                        *)
FailureMessages(c, up) ==
    (IF up.geoCW = "zero" \/ up.geoF = "zero"
     THEN {"City '" \o Str(c) \o "' not found."} ELSE {})
    \cup
    (IF "fail" \in {up.geoCW, up.geoF, up.wx, up.aqi, up.fc}
     THEN (IF up.msg # "" THEN {up.msg}
           ELSE {"Failed to fetch weather data", "Failed to fetch forecast data"})
     ELSE {})

(* C10: when the geocoding of a fetchData run finds no match, or its       *)
(* weather, air-quality or forecast request fails, the run sets error to a *)
(* non-null text carrying the failure's message and sets currentWeather    *)
(* and forecast to null, whatever was displayed before.                    *)
C10_FailureClearsSnapshot ==
    [][\A r \in RunIds :
          (runs[r].pc = "fetch" /\ runs'[r].pc # "fetch") =>
          \A up \in UpstreamsFor(runs[r].city, Upstreams) :
          (FetchResolve(r, up) /\ Fails(up)) =>
              /\ runs'[r].pc = "failed"
              /\ error' # NullStr
              /\ error' \in FailureMessages(runs[r].city, up)
              /\ currentWeather' = Null
              /\ forecast' = Null
      ]_vars

C10_Witness ==
    /\ runs[1].pc = "done"
    /\ runs[2].pc = "failed"
    /\ error = "City 'Tokyo' not found."
    /\ currentWeather = Null
    /\ forecast = Null
    /\ city = NewDelhi

----------------------------------------------------------------------------
(* Properties of the App: what the AI callbacks write, and overlapping     *)
(* searches (Spec)                                                         *)

(* A step of an insight stream (a chunk, its end, its failure) or the      *)
(* return of a generateWeatherScene call.                                  *)
AiCallbackStep ==
    \/ \E r \in RunIds : streams[r].pc = "open" /\ streams'[r] # streams[r]
    \/ \E r \in RunIds : scenes[r] = "call" /\ scenes'[r] = "done"
    \/ \E k \in RetryIds : retries[k] = "call" /\ retries'[k] = "done"

(* C11: no outcome of the insight stream or of the scene generation sets   *)
(* the error message or changes currentWeather or forecast: their          *)
(* callbacks write only insight, bgImage, bgQuotaError, retryCountdown and *)
(* the two loading flags; and a fetchData run whose weather fetch succeeds *)
(* leaves error as it is, with or without a credential.                    *)
C11_AiOutcomesLeaveWeatherAlone ==
    [][ /\ AiCallbackStep =>
              UNCHANGED <<error, currentWeather, forecast, city, unit, loading,
                          searchQuery, userIntent>>
        /\ \A r \in RunIds :
              (runs[r].pc = "fetch" /\ runs'[r].pc = "done") => error' = error
      ]_vars

C11_Witness ==
    /\ streams[1].pc = "done" /\ scenes[1] = "done"
    /\ insight = APOLOGY
    /\ bgQuotaError /\ retryCountdown = QUOTA_RETRY_SECONDS
    /\ error = NullStr
    /\ currentWeather # Null /\ forecast # Null

(* C12: in every reachable state currentWeather and forecast are both      *)
(* null, or both set and from the same search (same city, same unit).      *)
C12_SnapshotAndForecastTogether ==
    /\ (currentWeather = Null) <=> (forecast = Null)
    /\ currentWeather # Null =>
          /\ currentWeather.name = forecast.name
          /\ currentWeather.temperature_unit = forecast.temperature_unit

C12_Witness ==
    /\ runs[1].pc = "fetch"
    /\ runs[2].pc = "done"
    /\ currentWeather # Null /\ forecast # Null
    /\ currentWeather.name = "Tokyo" /\ forecast.name = "Tokyo"

(* fetchData starts. *)
SearchStarts == \E r \in RunIds : runs[r].pc # "fetch" /\ runs'[r].pc = "fetch"

(* The texts one call of onChunk can append. *)
ChunkTexts ==
    UNION {AppFragments(ToString(r)) : r \in RunIds}
    \cup {APOLOGY, OFFLINE, KEY_MISSING}

(* The texts that can follow a prefix of an insight buffer: the            *)
(* concatenations of at most MaxChunks + 1 chunk texts.                    *)
InsightSuffixes == {Concat(q) : q \in SeqsUpTo(ChunkTexts, MaxChunks + 1)}

IsPrefix(old, new) == \E t \in InsightSuffixes : new = old \o t

(* C13: the insight buffer is emptied at every start of fetchData, and     *)
(* between two starts every update appends to it: the old value is a       *)
(* prefix of the new one, also with the streams of two searches in flight. *)
C13_InsightAppendOnly ==
    [][ /\ SearchStarts => insight' = ""
        /\ ~SearchStarts => IsPrefix(insight, insight')
      ]_vars

(* C14: with no credential, no AI request is ever in flight, and the three *)
(* functions give their fallbacks: parseSearchQuery the query as the city, *)
(* streamWeatherInsight its one fixed chunk, generateWeatherScene no image *)
(* and no quota error.                                                     *)
C14_NoCredentialNoAiCall ==
    ~apiKey =>
        /\ \A r \in RunIds :
              /\ runs[r].pc # "parse"
              /\ streams[r].pc # "open"
              /\ scenes[r] # "call"
              /\ (runs[r].parsed /\ runs[r].pc = "fetch") =>
                     /\ runs[r].result = [isNull |-> FALSE, city |-> runs[r].query,
                                          intent |-> ""]
                     /\ runs[r].ai = NoOutcome
        /\ \A k \in RetryIds : retries[k] # "call"
        /\ insight \in {"", KEY_MISSING}
        /\ bgImage = NullStr /\ ~bgQuotaError /\ retryCountdown = 0
        /\ ~loadingInsight /\ ~loadingBg

C14_Witness ==
    /\ ~apiKey
    /\ runs[1].pc = "done"
    /\ insight = ""
    /\ runs[2].parsed /\ runs[2].pc = "fetch" /\ runs[2].city = RainingInParis

(* fetchData has started for a search later than r. *)
LaterStarted(r) ==
    \E q \in RunIds : q > r /\ runs[q].pc \in {"fetch", "done", "failed"}

(* C17: an insight chunk or a scene result of a search is not applied once *)
(* a later search has started: it leaves insight, bgImage, bgQuotaError    *)
(* and retryCountdown as they are.                                         *)
C17_StaleAiResultDiscarded ==
    [][\A r \in RunIds :
          /\ (LaterStarted(r) /\ streams[r].pc = "open" /\ streams'[r] # streams[r])
                => insight' = insight
          /\ (LaterStarted(r) /\ scenes[r] = "call" /\ scenes'[r] = "done")
                => UNCHANGED <<bgImage, bgQuotaError, retryCountdown>>
      ]_vars

----------------------------------------------------------------------------
(* Single calls of getCurrentWeather and getForecast, over the units, the  *)
(* upstream answers, the client clock and the UTC offsets within the       *)
(* bounds                                                                  *)

Offsets == (0 - MaxOffset)..MaxOffset
(* The instants of one UTC day (the second day counted). *)
ClockHours == 24..47
WindSpeeds == {3, 7}

FetchScenarios ==
    {AllFine, [AllFine EXCEPT !.aqi = "omitted"], [AllFine EXCEPT !.aqi = "fail"],
     [AllFine EXCEPT !.geoCW = "zero", !.geoF = "zero"],
     [AllFine EXCEPT !.fc = "fail"]}

NoFetchProbe ==
    [kind |-> "fetch", unit |-> CELSIUS, offset |-> 0, up |-> AllFine,
     cwDone |-> FALSE, fcDone |-> FALSE,
     cw |-> Rejected(""), fc |-> Rejected(""),
     cwRequests |-> <<>>, fcRequests |-> <<>>]

FetchProbes ==
    {[NoFetchProbe EXCEPT !.unit = u, !.offset = z,
                          !.up = [AllFine EXCEPT !.now = h,
                                     !.hourlyTimes = UpstreamHourlyTimes(h, z, n)]] :
        u \in Units, z \in Offsets, h \in ClockHours, n \in 0..MaxHours}
    \cup
    {[NoFetchProbe EXCEPT !.unit = u, !.up = [sc EXCEPT !.wind = w, !.geoName = g]] :
        u \in Units, sc \in FetchScenarios, w \in WindSpeeds, g \in GeoNames}

InitFetch == AppInit /\ watch = 0 /\ probe \in FetchProbes

CallGetCurrentWeather ==
    /\ probe.kind = "fetch"
    /\ ~probe.cwDone
    /\ probe' = [probe EXCEPT !.cwDone = TRUE,
                              !.cw = getCurrentWeather(Tokyo, probe.unit, probe.up),
                              !.cwRequests = WeatherRequests(probe.unit, probe.up)]
    /\ UNCHANGED <<appVars, taskVars, obsVars, timer, isListening>>

CallGetForecast ==
    /\ probe.kind = "fetch"
    /\ ~probe.fcDone
    /\ probe' = [probe EXCEPT !.fcDone = TRUE,
                              !.fc = getForecast(Tokyo, probe.unit, probe.up),
                              !.fcRequests = ForecastRequests(probe.unit, probe.up)]
    /\ UNCHANGED <<appVars, taskVars, obsVars, timer, isListening>>

NextFetch == CallGetCurrentWeather \/ CallGetForecast

SpecFetch == InitFetch /\ [][NextFetch]_vars

----------------------------------------------------------------------------
(* Properties of getCurrentWeather and getForecast (SpecFetch) *)

FetchProbed == probe.kind = "fetch" /\ probe.cwDone /\ probe.fcDone

(* C15: for both units, every weather request of getCurrentWeather and     *)
(* getForecast asks for the wind speed in m/s, the snapshot's wind speed   *)
(* is the upstream value as it came, and of the request parameters only    *)
(* temperature_unit depends on the unit.                                   *)
C15_WindAlwaysMetresPerSecond ==
    FetchProbed =>
        /\ \A i \in 1..Len(probe.cwRequests) :
              /\ probe.cwRequests[i].wind_speed_unit = "ms"
              /\ probe.cwRequests[i].temperature_unit =
                    (IF probe.unit = FAHRENHEIT THEN "fahrenheit" ELSE "celsius")
        /\ \A i \in 1..Len(probe.fcRequests) :
              /\ probe.fcRequests[i].wind_speed_unit = "ms"
              /\ probe.fcRequests[i].temperature_unit =
                    (IF probe.unit = FAHRENHEIT THEN "fahrenheit" ELSE "celsius")
        /\ probe.cw.ok =>
              /\ probe.cwRequests # <<>>
              /\ probe.cw.value.wind.speed = probe.up.wind
              /\ probe.cw.value.wind_speed_unit = "ms"
        /\ probe.fc.ok =>
              /\ probe.fcRequests # <<>>
              /\ probe.fc.value.wind_speed_unit = "ms"
        /\ [WeatherParams(CELSIUS) EXCEPT !.temperature_unit = ""]
              = [WeatherParams(FAHRENHEIT) EXCEPT !.temperature_unit = ""]
        /\ [ForecastParams(CELSIUS) EXCEPT !.temperature_unit = ""]
              = [ForecastParams(FAHRENHEIT) EXCEPT !.temperature_unit = ""]

C15_Witness ==
    /\ FetchProbed
    /\ probe.unit = FAHRENHEIT
    /\ probe.cw.ok /\ probe.fc.ok
    /\ probe.up.wind = 3
    /\ probe.cw.value.wind.speed = 3
    /\ probe.cwRequests = <<[temperature_unit |-> "fahrenheit", wind_speed_unit |-> "ms",
                             timezone |-> "auto"]>>

(* C16: for an upstream hourly list of n entries and the start index s     *)
(* that getForecast chose, the hourly output is the upstream entries       *)
(* s .. min(s + 24, n) - 1 in upstream order: at most 24 entries, none     *)
(* from before s, and fewer than 24 only when fewer than 24 remain.        *)
C16_HourlyWindow ==
    (FetchProbed /\ probe.fc.ok) =>
        LET times == probe.up.hourlyTimes
            n == Len(times)
            s == StartIndex(times, probe.up.now)
            out == probe.fc.value.hourly
        IN  /\ s >= 0 /\ (n > 0 => s < n)
            /\ Len(out) <= 24
            /\ Len(out) = (IF n - s < 24 THEN n - s ELSE 24)
            /\ \A k \in 1..Len(out) : out[k].dt = times[s + k]

C16_Witness ==
    /\ FetchProbed /\ probe.fc.ok
    /\ Len(probe.up.hourlyTimes) = 30
    /\ StartIndex(probe.up.hourlyTimes, probe.up.now) = 3
    /\ Len(probe.fc.value.hourly) = 24
    /\ probe.fc.value.hourly[1].dt = probe.up.hourlyTimes[4]
    /\ probe.fc.value.hourly[24].dt = probe.up.hourlyTimes[27]

(* The upstream list has an entry for the current hour at the location. *)
CurrentHourListed ==
    \E i \in 1..Len(probe.up.hourlyTimes) :
        probe.up.hourlyTimes[i] = WallClock(probe.up.now + probe.offset)

(* C18: whenever the upstream list has an entry for the current hour at    *)
(* the location, that entry is the first hourly entry getForecast returns, *)
(* for every UTC offset of the location.                                   *)
C18_FirstEntryIsCurrentHour ==
    (FetchProbed /\ probe.fc.ok /\ CurrentHourListed) =>
        /\ probe.fc.value.hourly # <<>>
        /\ probe.fc.value.hourly[1].dt = WallClock(probe.up.now + probe.offset)

(* C19: when the air-quality answer has no current readings (and the other *)
(* requests succeed), getCurrentWeather resolves to a snapshot with a null *)
(* aqi and its other fields filled from the weather answer.                *)
C19_MissingAqiStillSnapshot ==
    (FetchProbed /\ probe.up.aqi = "omitted"
        /\ probe.up.geoCW = "ok" /\ probe.up.wx = "ok") =>
        /\ probe.cw.ok
        /\ probe.cw.value.aqi = Null
        /\ probe.cw.value.wind.speed = probe.up.wind

----------------------------------------------------------------------------
(* The quota countdown followed through all its 86400 ticks: the mount     *)
(* fetch and the fetch of a unit toggle, their scene calls, the retry      *)
(* button and the timer (the insight stream is left aside)                 *)

(* The toggle is made and the calls return within EdgeTicks seconds of the *)
(* start or of the end of a countdown, or while none is running.           *)
AtEdge ==
    \/ retryCountdown >= QUOTA_RETRY_SECONDS - EdgeTicks
    \/ retryCountdown <= EdgeTicks

NextCountdown ==
    \/ Mount
    \/ AtEdge /\ ToggleUnit
    \/ \E r \in RunIds : AtEdge /\ FetchResolve(r, AllFine)
    \/ \E r \in RunIds : \E o \in AppSceneOutcomes(ToString(r)) :
          AtEdge /\ SceneReturn(r, o)
    \/ retryBackgroundGeneration
    \/ \E k \in RetryIds : \E o \in AppSceneOutcomes("R" \o ToString(k)) :
          AtEdge /\ RetryReturn(k, o)
    \/ TimerEffect
    \/ CountdownTick

(* A pending render is committed and an armed timer fires after its        *)
(* second.                                                                 *)
SpecCountdown ==
    Init /\ [][NextCountdown]_vars /\ WF_vars(TimerEffect) /\ WF_vars(CountdownTick)

(* C20: the retry countdown stays within 0..86400; a tick of the timer     *)
(* happens only while it is positive and lowers it by exactly 1; from zero *)
(* it only moves when a new quota result sets it to 86400; and once it is  *)
(* positive it eventually reaches 0 (searches and quota results being      *)
(* finitely many).                                                         *)
C20_CountdownRunsDown ==
    /\ [](retryCountdown \in 0..86400)
    /\ [][ /\ (retryCountdown' # retryCountdown /\ UNCHANGED <<runs, streams, scenes, retries>>)
              => (retryCountdown > 0 /\ retryCountdown' = retryCountdown - 1)
           /\ retryCountdown = 0 => retryCountdown' \in {0, 86400}
         ]_vars
    /\ [](retryCountdown > 0 => <>(retryCountdown = 0))
    /\ <>[](retryCountdown = 0)

----------------------------------------------------------------------------
(* Properties of the App: the scene state, the error, the loading flag and *)
(* the unit under overlapping searches (Spec)                              *)

(* The three shapes of the scene state: nothing, an image, a quota error   *)
(* with its countdown.                                                     *)
SceneShape ==
    \/ bgImage = NullStr /\ ~bgQuotaError /\ retryCountdown = 0
    \/ bgImage # NullStr /\ ~bgQuotaError /\ retryCountdown = 0
    \/ bgImage = NullStr /\ bgQuotaError /\ retryCountdown >= 0

(* C21: in every reachable state the scene state has one of the three      *)
(* shapes (no image, no quota error, countdown 0), (image, no quota error, *)
(* countdown 0), (no image, quota error, countdown >= 0): an image and the *)
(* quota flag are never set together and the countdown is positive only    *)
(* while the quota flag is set, after any interleaving of searches, scene  *)
(* results and retries.                                                    *)
C21_SceneStateShapes == SceneShape

(* A fetchData run is awaiting its Promise.all. *)
FetchPending == \E r \in RunIds : runs[r].pc = "fetch"

(* C22: in every reachable state where no weather fetch is in flight, an   *)
(* error message and a weather snapshot are never displayed together:      *)
(* error non-null implies currentWeather and forecast are null, also when  *)
(* a failing search and a succeeding search overlap, in either order of    *)
(* completion.                                                             *)
C22_ErrorExcludesSnapshot ==
    (~FetchPending /\ error # NullStr) =>
        (currentWeather = Null /\ forecast = Null)

(* C23: the loading flag is true in every state in which the weather fetch *)
(* of at least one search is still pending: the completion of one search   *)
(* never clears the flag while another search, started earlier or later,   *)
(* is still in flight.                                                     *)
C23_LoadingWhilePending == FetchPending => loading

(* The snapshot and the forecast on display were requested with unit u. *)
DisplayedIn(u) ==
    /\ currentWeather.temperature_unit = WeatherParams(u).temperature_unit
    /\ forecast.temperature_unit = ForecastParams(u).temperature_unit

(* C24: whenever no fetch is in flight and a snapshot is displayed, the    *)
(* snapshot and its forecast were fetched with the currently selected unit *)
(* system, so that every unit toggle, also one made while a fetch is       *)
(* pending or before the first snapshot has arrived, ends in a displayed   *)
(* snapshot in the selected unit.                                          *)
C24_SnapshotInSelectedUnit ==
    (~FetchPending /\ currentWeather # Null /\ forecast # Null) => DisplayedIn(unit)

----------------------------------------------------------------------------
(* Termination of the searches: the App under the assumption that every    *)
(* upstream and AI call in flight eventually returns or fails              *)

(* The answers of the providers followed here: all requests succeed, the   *)
(* forecast request fails, the geocoder finds no match.                    *)
TerminateUpstreams ==
    {AllFine, [AllFine EXCEPT !.fc = "fail"], [AllFine EXCEPT !.geoCW = "zero"]}

(* A call in flight settles: a parse, a weather fetch, an insight stream,  *)
(* a scene call of fetchData.                                              *)
CallReturns ==
    \/ \E r \in RunIds, o \in AppParseOutcomes : ParseReturn(r, o)
    \/ \E r \in RunIds, up \in TerminateUpstreams : FetchResolve(r, up)
    \/ \E r \in RunIds : StreamEnd(r)
    \/ \E r \in RunIds, e \in AppAiErrors : StreamFail(r, e)
    \/ \E r \in RunIds : \E o \in AppSceneOutcomes(ToString(r)) : SceneReturn(r, o)

(* The mount fetch, the searches typed or spoken, the chunks of the        *)
(* streams, and the return of every call. The retry button needs the       *)
(* countdown to have run down and is followed in SpecCountdown.            *)
NextTerminate ==
    \/ Mount
    \/ \E q \in TypedQueries : TypeQuery(q)
    \/ Submit
    \/ \E t \in Transcripts : VoiceResult(t)
    \/ \E r \in RunIds : \E t \in AppFragments(ToString(r)) : StreamChunk(r, t)
    \/ CallReturns

(* While calls are in flight, one of them settles. Every call settles at   *)
(* most once and the searches are finitely many, so this is all that the   *)
(* assumption that every call eventually returns or fails is needed for.   *)
SpecTerminate == Init /\ [][NextTerminate]_vars /\ WF_vars(CallReturns)

(* A handleSearch / fetchData run is awaiting its parse or its fetch. *)
RunPending(r) == runs[r].pc \in {"parse", "fetch"}

(* No call is in flight: no parse, no fetch, no stream, no scene call. *)
AllSettled ==
    /\ \A r \in RunIds : ~RunPending(r) /\ streams[r].pc # "open" /\ scenes[r] # "call"
    /\ \A k \in RetryIds : retries[k] # "call"

(* C25: every search that is started terminates. Given that every upstream *)
(* and AI call eventually returns or fails, each handleSearch / fetchData  *)
(* run eventually ends, and sets loading to false when it does; every      *)
(* stream and scene call it left in flight eventually completes; and in    *)
(* every state with no call in flight loading, loadingInsight and          *)
(* loadingBg are all false.                                                *)
C25_SearchesTerminate ==
    /\ \A r \in RunIds : RunPending(r) ~> (runs[r].pc \in {"done", "failed"})
    /\ [][\A r \in RunIds :
             (runs[r].pc = "fetch" /\ runs'[r].pc \in {"done", "failed"}) => ~loading'
         ]_vars
    /\ <>[]AllSettled
    /\ [](AllSettled => (~loading /\ ~loadingInsight /\ ~loadingBg))

C25_Witness ==
    /\ runs[1].pc = "done" /\ runs[2].pc = "failed"
    /\ streams[1].pc = "done" /\ scenes[1] = "done"
    /\ AllSettled
    /\ error # NullStr
    /\ ~loading /\ ~loadingInsight /\ ~loadingBg

====
